---- MODULE Spec2Model ----
(***************************************************************************)
(* nz-rs: non-zero refined numeric types.                                  *)
(*                                                                         *)
(*   NzInt   (src/src/nzint.rs)   a signed integer that is never 0         *)
(*   NzFloat (src/src/nzfloat.rs) a float that is never +0.0, -0.0 or NaN  *)
(*   nzSign  (src/src/nzsign.rs)  a two-valued enum {Neg = -1, Pos = 1}    *)
(*                                                                         *)
(* The library is a set of pure functions over immutable scalars.  Each    *)
(* component is driven by a client in the style of main(): two local       *)
(* bindings that hold values of the type, a call whose operands are those  *)
(* bindings (or the value the previous call returned), and a binding step  *)
(* that unwraps a returned value into a local.  The integer width and the  *)
(* float format are scaled down: BITS bits for i64, and an IEEE-754        *)
(* binary format with ExpBits exponent bits and ManBits fraction bits for  *)
(* f64 (subnormals, signed zeros, infinities, NaNs, round to nearest even).*)
(***************************************************************************)
EXTENDS Integers, FiniteSets, Sequences, TLC

VARIABLES ix, iy, ilast,      \* NzInt client: two bindings and the last call
          fx, fy, flast,      \* NzFloat client
          sx, sy, slast       \* nzSign client

ivars == <<ix, iy, ilast>>
fvars == <<fx, fy, flast>>
svars == <<sx, sy, slast>>
vars == <<ix, iy, ilast, fx, fy, flast, sx, sy, slast>>

(***************************************************************************)
(* Option / Result values and call records                                 *)
(***************************************************************************)
None == [tag |-> "None"]
Some(v) == [tag |-> "Some", val |-> v]
Ok(v) == [tag |-> "Ok", val |-> v]
Err(e) == [tag |-> "Err", err |-> e]
\* a value returned by a total function (no Option / Result around it)
Val(v) == [tag |-> "Val", val |-> v]

HasVal(r) == r.tag \in {"Some", "Ok", "Val"}

\* no call yet / the operand did not come from the previous call
NoCall == [op |-> "none", args |-> <<>>, res |-> None]
Call(o, as, r, f) == [op |-> o, args |-> as, res |-> r, from |-> f]
FirstCall == Call("none", <<>>, None, NoCall)
\* a call stripped of its own origin, as remembered by the call chained on it
Origin(c) == [op |-> c.op, args |-> c.args, res |-> c.res]

(***************************************************************************)
(* i64, scaled to BITS bits                                                *)
(***************************************************************************)
BITS == 4
TwoW == 2 ^ BITS
i64_MIN == -(2 ^ (BITS - 1))
i64_MAX == (2 ^ (BITS - 1)) - 1
I64 == i64_MIN .. i64_MAX

\* two's-complement wrap of a mathematical integer into I64
wrapping(n) ==
    LET m == n % TwoW
    IN  IF m > i64_MAX THEN m - TwoW ELSE m

\* i64::overflowing_add / _sub / _mul : <<wrapped result, overflow flag>>
overflowing_add(a, b) == <<wrapping(a + b), (a + b) \notin I64>>
overflowing_sub(a, b) == <<wrapping(a - b), (a - b) \notin I64>>
overflowing_mul(a, b) == <<wrapping(a * b), (a * b) \notin I64>>

i64_abs(a) == IF a < 0 THEN -a ELSE a

\* variant: the quotient rounded down (toward minus infinity)
i64_div_Floor(a, b) ==
    LET q == i64_abs(a) \div i64_abs(b)
        exact == i64_abs(a) % i64_abs(b) = 0
    IN  IF (a < 0) = (b < 0) THEN q
        ELSE IF exact THEN -q ELSE -q - 1

\* Rust's `/` on i64: truncates toward zero (b # 0, and not MIN / -1)
i64_div(a, b) ==
    LET q == i64_abs(a) \div i64_abs(b)
    IN  IF (a < 0) = (b < 0) THEN q ELSE -q

(***************************************************************************)
(* NzInt                                                                   *)
(***************************************************************************)
\* variant: only positive values are accepted
NzInt_new_PositiveOnly(v) == IF v <= 0 THEN None ELSE Some(v)

\* NonZeroI64::new(v).map(NzInt)
NzInt_new(v) == IF v = 0 THEN None ELSE Some(v)

\* unsafe: the caller guarantees v # 0.  The wrapper holds exactly v.
NzInt_new_unchecked(v) == v

NzInt_get(n) == n

\* variant: an overflowed sum is taken to be non-zero without looking
NzInt_checked_add_TrustOverflow(self, rhs) ==
    LET ro == overflowing_add(NzInt_get(self), NzInt_get(rhs))
    IN  IF ro[2] THEN Ok(NzInt_new_unchecked(ro[1]))
        ELSE IF ro[1] = 0 THEN Err("ZeroResult")
        ELSE Ok(NzInt_new_unchecked(ro[1]))

NzInt_checked_add(self, rhs) ==
    LET a == NzInt_get(self)
        b == NzInt_get(rhs)
        ro == overflowing_add(a, b)
        res == ro[1]
        overflow == ro[2]
    IN  IF overflow
        THEN IF res = 0 THEN Err("ZeroResult")
                        ELSE Ok(NzInt_new_unchecked(res))
        ELSE IF res = 0 THEN Err("ZeroResult")
                        ELSE Ok(NzInt_new_unchecked(res))

\* variant: overflow is reported as an error
NzInt_checked_sub_OverflowIsError(self, rhs) ==
    LET ro == overflowing_sub(NzInt_get(self), NzInt_get(rhs))
    IN  IF ro[2] THEN Err("DivOverflow")
        ELSE IF ro[1] = 0 THEN Err("ZeroResult")
        ELSE Ok(NzInt_new_unchecked(ro[1]))

NzInt_checked_sub(self, rhs) ==
    LET a == NzInt_get(self)
        b == NzInt_get(rhs)
        ro == overflowing_sub(a, b)
        res == ro[1]
        overflow == ro[2]
    IN  IF overflow
        THEN IF res = 0 THEN Err("ZeroResult")
                        ELSE Ok(NzInt_new_unchecked(res))
        ELSE IF res = 0 THEN Err("ZeroResult")
                        ELSE Ok(NzInt_new_unchecked(res))

\* variant: an overflowed product is taken to be non-zero without looking
NzInt_checked_mul_TrustOverflow(self, rhs) ==
    LET ro == overflowing_mul(NzInt_get(self), NzInt_get(rhs))
    IN  IF ro[2] THEN Ok(NzInt_new_unchecked(ro[1]))
        ELSE IF ro[1] = 0 THEN Err("ZeroResult")
        ELSE Ok(NzInt_new_unchecked(ro[1]))

NzInt_checked_mul(self, rhs) ==
    LET a == NzInt_get(self)
        b == NzInt_get(rhs)
        ro == overflowing_mul(a, b)
        res == ro[1]
        overflow == ro[2]
    IN  IF overflow
        THEN IF res = 0 THEN Err("ZeroResult")
                        ELSE Ok(NzInt_new_unchecked(res))
        ELSE IF res = 0 THEN Err("ZeroResult")
                        ELSE Ok(NzInt_new_unchecked(res))

NzInt_checked_div(self, rhs) ==
    LET a == NzInt_get(self)
        b == NzInt_get(rhs)
    IN  IF a = i64_MIN /\ b = -1
        THEN Err("DivOverflow")
        ELSE LET q == i64_div(a, b)
             IN  IF q = 0 THEN Err("ZeroResult")
                          ELSE Ok(NzInt_new_unchecked(q))

\* variant: the guard tests the wrong end of the range
NzInt_checked_neg_MaxGuard(self) ==
    LET a == NzInt_get(self)
    IN  IF a = i64_MAX
        THEN Err("DivOverflow")
        ELSE Ok(NzInt_new_unchecked(wrapping(-a)))

NzInt_checked_neg(self) ==
    LET a == NzInt_get(self)
    IN  IF a = i64_MIN
        THEN Err("DivOverflow")
        ELSE LET r == -a IN Ok(NzInt_new_unchecked(r))

\* variant: no guard for i64::MIN, whose absolute value wraps to itself
NzInt_checked_abs_NoMinGuard(self) ==
    Ok(NzInt_new_unchecked(wrapping(i64_abs(NzInt_get(self)))))

NzInt_checked_abs(self) ==
    LET a == NzInt_get(self)
    IN  IF a = i64_MIN
        THEN Err("DivOverflow")
        ELSE LET r == i64_abs(a) IN Ok(NzInt_new_unchecked(r))

NzInt_signum(self) ==
    IF NzInt_get(self) > 0 THEN NzInt_new_unchecked(1)
                           ELSE NzInt_new_unchecked(-1)

\* impl TryFrom<i64> for NzInt
NzInt_try_from(v) ==
    LET o == NzInt_new(v)
    IN  IF o.tag = "Some" THEN Ok(o.val) ELSE Err("ZeroResult")

NzInt_one == NzInt_new_unchecked(1)
NzInt_neg_one == NzInt_new_unchecked(-1)

(***************************************************************************)
(* NzInt client                                                            *)
(*   let x = <call>;   a returned value is bound to x or to y; a call that *)
(*   fails (None / Err) leaves both bindings as they were.                 *)
(***************************************************************************)
Dest == {"x", "y"}

\* the binding d after a call returned r
Bound(d, me, old, r) == IF d = me /\ HasVal(r) THEN Some(r.val) ELSE old

\* the NzInt values the bindings hold
IHeld == {b.val : b \in {c \in {ix, iy} : c.tag = "Some"}}

IntCall(c, d) ==
    /\ ilast' = c
    /\ ix' = Bound(d, "x", ix, c.res)
    /\ iy' = Bound(d, "y", iy, c.res)
    /\ UNCHANGED <<fvars, svars>>

IntNew(v, d) == IntCall(Call("new", <<v>>, NzInt_new(v), NoCall), d)

IntTryFrom(v, d) ==
    IntCall(Call("try_from", <<v>>, NzInt_try_from(v), NoCall), d)

IntOne(d) == IntCall(Call("one", <<>>, Val(NzInt_one), NoCall), d)

IntNegOne(d) == IntCall(Call("neg_one", <<>>, Val(NzInt_neg_one), NoCall), d)

IntCheckedAdd(a, b, d) ==
    IntCall(Call("checked_add", <<a, b>>, NzInt_checked_add(a, b), NoCall), d)

IntCheckedSub(a, b, d) ==
    IntCall(Call("checked_sub", <<a, b>>, NzInt_checked_sub(a, b), NoCall), d)

IntCheckedMul(a, b, d) ==
    IntCall(Call("checked_mul", <<a, b>>, NzInt_checked_mul(a, b), NoCall), d)

IntCheckedDiv(a, b, d) ==
    IntCall(Call("checked_div", <<a, b>>, NzInt_checked_div(a, b), NoCall), d)

IntCheckedNeg(a, d) ==
    IntCall(Call("checked_neg", <<a>>, NzInt_checked_neg(a), NoCall), d)

IntCheckedAbs(a, d) ==
    IntCall(Call("checked_abs", <<a>>, NzInt_checked_abs(a), NoCall), d)

IntSignum(a, d) ==
    IntCall(Call("signum", <<a>>, Val(NzInt_signum(a)), NoCall), d)

\* r.checked_neg() / r.checked_abs() on the value the previous call returned
IntChainNeg(d) ==
    /\ HasVal(ilast.res)
    /\ IntCall(Call("checked_neg", <<ilast.res.val>>,
                    NzInt_checked_neg(ilast.res.val), Origin(ilast)), d)

IntChainAbs(d) ==
    /\ HasVal(ilast.res)
    /\ IntCall(Call("checked_abs", <<ilast.res.val>>,
                    NzInt_checked_abs(ilast.res.val), Origin(ilast)), d)

IntNext ==
    \/ \E v \in I64, d \in Dest : IntNew(v, d)
    \/ \E v \in I64, d \in Dest : IntTryFrom(v, d)
    \/ \E d \in Dest : IntOne(d)
    \/ \E d \in Dest : IntNegOne(d)
    \/ \E a \in IHeld, b \in IHeld, d \in Dest : IntCheckedAdd(a, b, d)
    \/ \E a \in IHeld, b \in IHeld, d \in Dest : IntCheckedSub(a, b, d)
    \/ \E a \in IHeld, b \in IHeld, d \in Dest : IntCheckedMul(a, b, d)
    \/ \E a \in IHeld, b \in IHeld, d \in Dest : IntCheckedDiv(a, b, d)
    \/ \E a \in IHeld, d \in Dest : IntCheckedNeg(a, d)
    \/ \E a \in IHeld, d \in Dest : IntCheckedAbs(a, d)
    \/ \E a \in IHeld, d \in Dest : IntSignum(a, d)
    \/ \E d \in Dest : IntChainNeg(d)
    \/ \E d \in Dest : IntChainAbs(d)

(***************************************************************************)
(* f64, scaled to an IEEE-754 binary format of 1 + ExpBits + ManBits bits. *)
(* A float is its bit pattern (f64::to_bits): sign, biased exponent,       *)
(* fraction.  Exponent 0 is zero / subnormal, exponent all ones is         *)
(* infinity (fraction 0) or NaN (fraction # 0).  Arithmetic is exact and   *)
(* then rounded to nearest, ties to even; finite values are counted in     *)
(* units of the smallest subnormal.                                        *)
(***************************************************************************)
ExpBits == 2
ManBits == 1
ManSize == 2 ^ ManBits
SignBit == 2 ^ (ExpBits + ManBits)
Bias == (2 ^ (ExpBits - 1)) - 1
\* magnitude pattern of infinity; the magnitudes above it are NaNs
InfMag == SignBit - ManSize
F64 == 0 .. (2 * SignBit - 1)
\* 1.0 in units of the smallest subnormal
Scale == 2 ^ (Bias - 1 + ManBits)

Mag(v) == v % SignBit
Negative(v) == v >= SignBit
Bits(neg, p) == IF neg THEN SignBit + p ELSE p

\* the value of magnitude pattern p, in units (p = InfMag: the first value
\* beyond the largest finite one)
Units(p) ==
    LET e == p \div ManSize
        m == p % ManSize
    IN  IF e = 0 THEN m ELSE (ManSize + m) * (2 ^ (e - 1))

SUnits(v) == IF Negative(v) THEN -Units(Mag(v)) ELSE Units(Mag(v))

\* round n/d units (n >= 0, d > 0) to a magnitude pattern: nearest, ties to
\* the even pattern, overflow to infinity
Round(n, d) ==
    LET lo == CHOOSE p \in 0 .. InfMag :
                  /\ Units(p) * d <= n
                  /\ (p = InfMag \/ Units(p + 1) * d > n)
    IN  IF lo = InfMag THEN InfMag
        ELSE LET mid == (Units(lo) + Units(lo + 1)) * d
             IN  IF 2 * n < mid THEN lo
                 ELSE IF 2 * n > mid THEN lo + 1
                 ELSE IF lo % 2 = 0 THEN lo ELSE lo + 1

f64_NAN == InfMag + (ManSize \div 2)
f64_zero == Bits(FALSE, 0)
\* the literals 1.0 and -1.0
f64_one == Bits(FALSE, Bias * ManSize)
f64_neg_one == Bits(TRUE, Bias * ManSize)

f64_is_nan(v) == Mag(v) > InfMag
f64_is_inf(v) == Mag(v) = InfMag
f64_is_zero(v) == Mag(v) = 0
f64_is_sign_positive(v) == ~Negative(v)
f64_abs(v) == Mag(v)
f64_neg(v) == Bits(~Negative(v), Mag(v))

\* `==` on f64: NaN equals nothing, +0.0 equals -0.0
f64_eq(a, b) ==
    /\ ~f64_is_nan(a)
    /\ ~f64_is_nan(b)
    /\ (a = b \/ (f64_is_zero(a) /\ f64_is_zero(b)))

f64_add(x, y) ==
    IF f64_is_nan(x) \/ f64_is_nan(y) THEN f64_NAN
    ELSE IF f64_is_inf(x) /\ f64_is_inf(y) THEN (IF x = y THEN x ELSE f64_NAN)
    ELSE IF f64_is_inf(x) THEN x
    ELSE IF f64_is_inf(y) THEN y
    ELSE LET s == SUnits(x) + SUnits(y)
         IN  IF s = 0
             THEN Bits(Negative(x) /\ Negative(y), 0)
             ELSE Bits(s < 0, Round(IF s < 0 THEN -s ELSE s, 1))

f64_sub(x, y) == f64_add(x, f64_neg(y))

f64_mul(x, y) ==
    LET neg == Negative(x) # Negative(y)
    IN  IF f64_is_nan(x) \/ f64_is_nan(y) THEN f64_NAN
        ELSE IF f64_is_inf(x) \/ f64_is_inf(y)
        THEN (IF f64_is_zero(x) \/ f64_is_zero(y) THEN f64_NAN
                                                 ELSE Bits(neg, InfMag))
        ELSE Bits(neg, Round(Units(Mag(x)) * Units(Mag(y)), Scale))

f64_div(x, y) ==
    LET neg == Negative(x) # Negative(y)
    IN  IF f64_is_nan(x) \/ f64_is_nan(y) THEN f64_NAN
        ELSE IF f64_is_inf(x)
        THEN (IF f64_is_inf(y) THEN f64_NAN ELSE Bits(neg, InfMag))
        ELSE IF f64_is_inf(y) THEN Bits(neg, 0)
        ELSE IF f64_is_zero(y)
        THEN (IF f64_is_zero(x) THEN f64_NAN ELSE Bits(neg, InfMag))
        ELSE Bits(neg, Round(Units(Mag(x)) * Scale, Units(Mag(y))))

(***************************************************************************)
(* NzFloat                                                                 *)
(***************************************************************************)
NzFloat_new(v) ==
    IF f64_eq(v, f64_zero) \/ f64_is_nan(v) THEN None ELSE Some(v)

\* unsafe: the caller guarantees v is neither zero nor NaN.  No check.
NzFloat_new_unchecked(v) == v

NzFloat_get(n) == n

NzFloat_checked_add(self, rhs) ==
    LET r == f64_add(self, rhs)
    IN  IF f64_is_nan(r) THEN Err("NotANumber")
        ELSE IF f64_eq(r, f64_zero) THEN Err("ZeroResult")
        ELSE Ok(NzFloat_new_unchecked(r))

NzFloat_checked_sub(self, rhs) ==
    LET r == f64_sub(self, rhs)
    IN  IF f64_is_nan(r) THEN Err("NotANumber")
        ELSE IF f64_eq(r, f64_zero) THEN Err("ZeroResult")
        ELSE Ok(NzFloat_new_unchecked(r))

\* variant: zero is recognised by its bit pattern, which misses -0.0
NzFloat_checked_mul_BitsZero(self, rhs) ==
    LET r == f64_mul(self, rhs)
    IN  IF f64_is_nan(r) THEN Err("NotANumber")
        ELSE IF r = f64_zero THEN Err("ZeroResult")
        ELSE Ok(NzFloat_new_unchecked(r))

NzFloat_checked_mul(self, rhs) ==
    LET r == f64_mul(self, rhs)
    IN  IF f64_is_nan(r) THEN Err("NotANumber")
        ELSE IF f64_eq(r, f64_zero) THEN Err("ZeroResult")
        ELSE Ok(NzFloat_new_unchecked(r))

NzFloat_checked_div(self, rhs) ==
    LET r == f64_div(self, rhs)
    IN  IF f64_is_nan(r) THEN Err("NotANumber")
        ELSE IF f64_eq(r, f64_zero) THEN Err("ZeroResult")
        ELSE Ok(NzFloat_new_unchecked(r))

NzFloat_abs(self) ==
    LET r == f64_abs(self)
    IN  NzFloat_new_unchecked(r)

NzFloat_signum(self) ==
    IF f64_is_sign_positive(self) THEN NzFloat_new_unchecked(f64_one)
                                  ELSE NzFloat_new_unchecked(f64_neg_one)

NzFloat_one == NzFloat_new_unchecked(f64_one)
NzFloat_neg_one == NzFloat_new_unchecked(f64_neg_one)

\* impl TryFrom<f64> for NzFloat
NzFloat_try_from(v) ==
    LET o == NzFloat_new(v)
    IN  IF o.tag = "Some" THEN Ok(o.val) ELSE Err("ZeroResult")

(***************************************************************************)
(* NzFloat client                                                          *)
(***************************************************************************)
FHeld == {b.val : b \in {c \in {fx, fy} : c.tag = "Some"}}

FloatCall(c, d) ==
    /\ flast' = c
    /\ fx' = Bound(d, "x", fx, c.res)
    /\ fy' = Bound(d, "y", fy, c.res)
    /\ UNCHANGED <<ivars, svars>>

FloatNew(v, d) == FloatCall(Call("new", <<v>>, NzFloat_new(v), NoCall), d)

FloatTryFrom(v, d) ==
    FloatCall(Call("try_from", <<v>>, NzFloat_try_from(v), NoCall), d)

FloatOne(d) == FloatCall(Call("one", <<>>, Val(NzFloat_one), NoCall), d)

FloatNegOne(d) ==
    FloatCall(Call("neg_one", <<>>, Val(NzFloat_neg_one), NoCall), d)

FloatCheckedAdd(a, b, d) ==
    FloatCall(Call("checked_add", <<a, b>>, NzFloat_checked_add(a, b), NoCall), d)

FloatCheckedSub(a, b, d) ==
    FloatCall(Call("checked_sub", <<a, b>>, NzFloat_checked_sub(a, b), NoCall), d)

FloatCheckedMul(a, b, d) ==
    FloatCall(Call("checked_mul", <<a, b>>, NzFloat_checked_mul(a, b), NoCall), d)

FloatCheckedDiv(a, b, d) ==
    FloatCall(Call("checked_div", <<a, b>>, NzFloat_checked_div(a, b), NoCall), d)

FloatAbs(a, d) == FloatCall(Call("abs", <<a>>, Val(NzFloat_abs(a)), NoCall), d)

FloatSignum(a, d) ==
    FloatCall(Call("signum", <<a>>, Val(NzFloat_signum(a)), NoCall), d)

FloatNext ==
    \/ \E v \in F64, d \in Dest : FloatNew(v, d)
    \/ \E v \in F64, d \in Dest : FloatTryFrom(v, d)
    \/ \E d \in Dest : FloatOne(d)
    \/ \E d \in Dest : FloatNegOne(d)
    \/ \E a \in FHeld, b \in FHeld, d \in Dest : FloatCheckedAdd(a, b, d)
    \/ \E a \in FHeld, b \in FHeld, d \in Dest : FloatCheckedSub(a, b, d)
    \/ \E a \in FHeld, b \in FHeld, d \in Dest : FloatCheckedMul(a, b, d)
    \/ \E a \in FHeld, b \in FHeld, d \in Dest : FloatCheckedDiv(a, b, d)
    \/ \E a \in FHeld, d \in Dest : FloatAbs(a, d)
    \/ \E a \in FHeld, d \in Dest : FloatSignum(a, d)

(***************************************************************************)
(* nzSign                                                                  *)
(***************************************************************************)
nzSign == {"Neg", "Pos"}
I8 == -128 .. 127

nzSign_is_true(self) == self = "Pos"
nzSign_is_false(self) == self = "Neg"

nzSign_not(self) == IF nzSign_is_true(self) THEN "Neg" ELSE "Pos"

\* variant: the body of `or`
nzSign_and_AsOr(self, rhs) == IF nzSign_is_true(self) THEN "Pos" ELSE rhs

nzSign_and(self, rhs) == IF nzSign_is_false(self) THEN "Neg" ELSE rhs

nzSign_or(self, rhs) == IF nzSign_is_true(self) THEN "Pos" ELSE rhs

nzSign_xor(self, rhs) == IF self = rhs THEN "Neg" ELSE "Pos"

\* `self as i8` under #[repr(i8)] enum nzSign { Neg = -1, Pos = 1 }
nzSign_to_i8(self) == IF self = "Neg" THEN -1 ELSE 1

\* variant: the boolean encoding 0 / 1 instead of -1 / 1
nzSign_from_i8_ZeroIsNeg(v) ==
    CASE v = 1 -> Some("Pos")
      [] v = 0 -> Some("Neg")
      [] OTHER -> None

nzSign_from_i8(v) ==
    CASE v = 1 -> Some("Pos")
      [] v = -1 -> Some("Neg")
      [] OTHER -> None

nzSign_to_bool(self) == nzSign_is_true(self)
nzSign_from_bool(b) == IF b THEN "Pos" ELSE "Neg"

(***************************************************************************)
(* nzSign client                                                           *)
(***************************************************************************)
SHeld == {b.val : b \in {c \in {sx, sy} : c.tag = "Some"}}

\* calls that return an nzSign (from_i8: inside an Option)
SignOps == {"from_bool", "from_i8", "not", "and", "or", "xor"}
ReturnsSign(c) == c.op \in SignOps /\ HasVal(c.res)

\* a call that returns an nzSign: the sign is bound to x or to y
SignCall(c, d) ==
    /\ slast' = c
    /\ sx' = Bound(d, "x", sx, c.res)
    /\ sy' = Bound(d, "y", sy, c.res)
    /\ UNCHANGED <<ivars, fvars>>

\* a call that returns a bool or an i8
SignQuery(c) ==
    /\ slast' = c
    /\ UNCHANGED <<sx, sy, ivars, fvars>>

SignFromBool(b, d) ==
    SignCall(Call("from_bool", <<b>>, Val(nzSign_from_bool(b)), NoCall), d)

SignFromI8(v, d) ==
    SignCall(Call("from_i8", <<v>>, nzSign_from_i8(v), NoCall), d)

SignNot(a, d) == SignCall(Call("not", <<a>>, Val(nzSign_not(a)), NoCall), d)

SignAnd(a, b, d) ==
    SignCall(Call("and", <<a, b>>, Val(nzSign_and(a, b)), NoCall), d)

SignOr(a, b, d) ==
    SignCall(Call("or", <<a, b>>, Val(nzSign_or(a, b)), NoCall), d)

SignXor(a, b, d) ==
    SignCall(Call("xor", <<a, b>>, Val(nzSign_xor(a, b)), NoCall), d)

SignToI8(a) == SignQuery(Call("to_i8", <<a>>, Val(nzSign_to_i8(a)), NoCall))

SignToBool(a) ==
    SignQuery(Call("to_bool", <<a>>, Val(nzSign_to_bool(a)), NoCall))

SignIsTrue(a) ==
    SignQuery(Call("is_true", <<a>>, Val(nzSign_is_true(a)), NoCall))

SignIsFalse(a) ==
    SignQuery(Call("is_false", <<a>>, Val(nzSign_is_false(a)), NoCall))

\* r.not() on the sign the previous call returned
SignChainNot(d) ==
    /\ ReturnsSign(slast)
    /\ SignCall(Call("not", <<slast.res.val>>,
                     Val(nzSign_not(slast.res.val)), Origin(slast)), d)

\* nzSign::from_i8(s.to_i8())
SignChainFromI8(d) ==
    /\ slast.op = "to_i8"
    /\ SignCall(Call("from_i8", <<slast.res.val>>,
                     nzSign_from_i8(slast.res.val), Origin(slast)), d)

\* nzSign::from_i8(v).unwrap().to_i8()
SignChainToI8 ==
    /\ slast.op = "from_i8"
    /\ HasVal(slast.res)
    /\ SignQuery(Call("to_i8", <<slast.res.val>>,
                      Val(nzSign_to_i8(slast.res.val)), Origin(slast)))

SignNext ==
    \/ \E b \in BOOLEAN, d \in Dest : SignFromBool(b, d)
    \/ \E v \in I8, d \in Dest : SignFromI8(v, d)
    \/ \E a \in SHeld, d \in Dest : SignNot(a, d)
    \/ \E a \in SHeld, b \in SHeld, d \in Dest : SignAnd(a, b, d)
    \/ \E a \in SHeld, b \in SHeld, d \in Dest : SignOr(a, b, d)
    \/ \E a \in SHeld, b \in SHeld, d \in Dest : SignXor(a, b, d)
    \/ \E a \in SHeld : SignToI8(a)
    \/ \E a \in SHeld : SignToBool(a)
    \/ \E a \in SHeld : SignIsTrue(a)
    \/ \E a \in SHeld : SignIsFalse(a)
    \/ \E d \in Dest : SignChainNot(d)
    \/ \E d \in Dest : SignChainFromI8(d)
    \/ SignChainToI8

(***************************************************************************)
(* Specifications: one client per component                                *)
(***************************************************************************)
Init ==
    /\ ix = None /\ iy = None /\ ilast = FirstCall
    /\ fx = None /\ fy = None /\ flast = FirstCall
    /\ sx = None /\ sy = None /\ slast = FirstCall

IntSpec == Init /\ [][IntNext]_vars
FloatSpec == Init /\ [][FloatNext]_vars
SignSpec == Init /\ [][SignNext]_vars

(***************************************************************************)
(* Properties of NzInt (checked under IntSpec)                             *)
(***************************************************************************)
IsZeroResult(r) == r.tag = "Err" /\ r.err = "ZeroResult"
IsDivOverflow(r) == r.tag = "Err" /\ r.err = "DivOverflow"
IsNotANumber(r) == r.tag = "Err" /\ r.err = "NotANumber"
IsOk(r) == r.tag = "Ok"

\* n is congruent to 0 modulo 2^BITS
MultipleOfTwoW(n) == n % TwoW = 0
\* r is the two's-complement representative of the mathematical integer n
Represents(r, n) == r \in I64 /\ MultipleOfTwoW(r - n)
Magnitude(n) == IF n >= 0 THEN n ELSE -n

IntOps == {"new", "try_from", "one", "neg_one", "checked_add", "checked_sub",
           "checked_mul", "checked_div", "checked_neg", "checked_abs", "signum"}

\* C1: after any sequence of NzInt operations on values produced earlier in
\* the sequence, every NzInt that exists (each binding, and the value the
\* last call returned) wraps an integer of the i64 range different from 0;
\* a call that returns no value returns None or an error.
C1_NzIntNeverZero ==
    /\ \A v \in IHeld : v # 0 /\ v \in I64
    /\ ilast.op \in IntOps =>
          IF HasVal(ilast.res)
          THEN ilast.res.val # 0 /\ ilast.res.val \in I64
          ELSE ilast.res = None \/ IsZeroResult(ilast.res)
                                \/ IsDivOverflow(ilast.res)

\* C1 witness: a multiplication overflowed, wrapped to a non-zero value and
\* that value is now held by a binding.
C1_Witness ==
    /\ ilast.op = "checked_mul"
    /\ (ilast.args[1] * ilast.args[2]) \notin I64
    /\ IsOk(ilast.res)
    /\ ilast.res.val \in IHeld

\* C2 (as stated): constructing with 0 always fails with ZeroResult, by
\* either constructor; any other v succeeds and get() returns v.
C2_Original ==
    ilast.op \in {"new", "try_from"} =>
        LET v == ilast.args[1]
        IN  /\ v = 0 => IsZeroResult(ilast.res)
            /\ v # 0 => HasVal(ilast.res) /\ NzInt_get(ilast.res.val) = v

\* C2 (amended): try_from(0) fails with ZeroResult and new(0) returns None
\* (an absent value, no error kind); with any other value v of the i64 range
\* both succeed and get() on the result returns exactly v.
C2_Construct ==
    ilast.op \in {"new", "try_from"} =>
        LET v == ilast.args[1]
        IN  /\ (v = 0 /\ ilast.op = "try_from") => IsZeroResult(ilast.res)
            /\ (v = 0 /\ ilast.op = "new") => ilast.res = None
            /\ v # 0 => /\ HasVal(ilast.res)
                        /\ NzInt_get(ilast.res.val) = v
                        /\ ilast.res.tag = (IF ilast.op = "new" THEN "Some"
                                                                ELSE "Ok")

\* C2 witness: i64::MIN was passed to try_from and came back through get().
C2_Witness ==
    /\ ilast.op = "try_from"
    /\ ilast.args[1] = i64_MIN
    /\ IsOk(ilast.res)
    /\ NzInt_get(ilast.res.val) = i64_MIN

\* C3: a.checked_add(b) fails with ZeroResult iff a + b is 0 modulo 2^BITS
\* (MIN + MIN included); otherwise it succeeds with the wrapped sum; overflow
\* alone is never an error.
C3_CheckedAdd ==
    ilast.op = "checked_add" =>
        LET a == ilast.args[1]
            b == ilast.args[2]
        IN  /\ a # 0 /\ b # 0
            /\ IsZeroResult(ilast.res) <=> MultipleOfTwoW(a + b)
            /\ ~MultipleOfTwoW(a + b) =>
                  IsOk(ilast.res) /\ Represents(ilast.res.val, a + b)
            /\ (a = i64_MIN /\ b = i64_MIN) => IsZeroResult(ilast.res)
            /\ IsOk(ilast.res) \/ IsZeroResult(ilast.res)

\* C3 witness: MIN + MIN overflowed, wrapped to 0 and was rejected.
C3_Witness ==
    /\ ilast.op = "checked_add"
    /\ ilast.args = <<i64_MIN, i64_MIN>>
    /\ IsZeroResult(ilast.res)

\* q is the quotient of a by b truncated toward zero
TruncatedQuotient(q, a, b) ==
    /\ Magnitude(q) * Magnitude(b) <= Magnitude(a)
    /\ Magnitude(a) - Magnitude(q) * Magnitude(b) < Magnitude(b)
    /\ q > 0 => (a > 0) = (b > 0)
    /\ q < 0 => (a > 0) # (b > 0)

\* C4: a.checked_div(b) is DivOverflow iff a = MIN and b = -1; otherwise
\* ZeroResult iff |a| < |b| (the truncated quotient is 0); otherwise Ok with
\* the quotient truncated toward zero, which is in range.  b is never 0.
C4_CheckedDiv ==
    ilast.op = "checked_div" =>
        LET a == ilast.args[1]
            b == ilast.args[2]
            ovf == a = i64_MIN /\ b = -1
        IN  /\ b # 0
            /\ IsDivOverflow(ilast.res) <=> ovf
            /\ IsZeroResult(ilast.res) <=> (~ovf /\ Magnitude(a) < Magnitude(b))
            /\ IsOk(ilast.res) <=> (~ovf /\ Magnitude(a) >= Magnitude(b))
            /\ IsOk(ilast.res) =>
                  /\ ilast.res.val \in I64
                  /\ TruncatedQuotient(ilast.res.val, a, b)

\* C4 witness: a negative dividend that the divisor does not divide, so that
\* truncation toward zero and rounding down differ.
C4_Witness ==
    /\ ilast.op = "checked_div"
    /\ ilast.args[1] < 0
    /\ ilast.args[2] > 1
    /\ (-ilast.args[1]) % ilast.args[2] # 0
    /\ IsOk(ilast.res)

\* C5: checked_neg and checked_abs fail with DivOverflow iff self = MIN; for
\* any other a, checked_neg returns -a and checked_abs returns |a|; neither
\* returns ZeroResult.
C5_NegAbs ==
    ilast.op \in {"checked_neg", "checked_abs"} =>
        LET a == ilast.args[1]
        IN  /\ IsDivOverflow(ilast.res) <=> a = i64_MIN
            /\ ~IsZeroResult(ilast.res)
            /\ a # i64_MIN =>
                  /\ IsOk(ilast.res)
                  /\ ilast.res.val = (IF ilast.op = "checked_neg"
                                      THEN 0 - a ELSE Magnitude(a))

\* C5 witness: checked_abs was called on MIN and failed with DivOverflow.
C5_Witness ==
    /\ ilast.op = "checked_abs"
    /\ ilast.args[1] = i64_MIN
    /\ IsDivOverflow(ilast.res)

\* C6: for a # MIN, a.checked_neg().checked_neg() is Ok(a); a.checked_abs()
\* is Ok(a) when a > 0 and equals a.checked_neg() when a < 0; and
\* a.checked_neg().checked_abs() equals a.checked_abs(); none of them fails.
C6_NegAbsCompose ==
    /\ (ilast.op = "checked_neg" /\ ilast.from.op = "checked_neg"
          /\ ilast.from.args[1] # i64_MIN)
       => ilast.res = Ok(ilast.from.args[1])
    /\ (ilast.op = "checked_abs" /\ ilast.args[1] # i64_MIN)
       => /\ IsOk(ilast.res)
          /\ ilast.res = (IF ilast.args[1] > 0 THEN Ok(ilast.args[1])
                          ELSE NzInt_checked_neg(ilast.args[1]))
    /\ (ilast.op = "checked_abs" /\ ilast.from.op = "checked_neg"
          /\ ilast.from.args[1] # i64_MIN)
       => /\ IsOk(ilast.res)
          /\ ilast.res = NzInt_checked_abs(ilast.from.args[1])

\* C6 witness: a negative value was negated twice and came back.
C6_Witness ==
    /\ ilast.op = "checked_neg"
    /\ ilast.from.op = "checked_neg"
    /\ ilast.from.args[1] < 0
    /\ ilast.from.args[1] # i64_MIN
    /\ ilast.res = Ok(ilast.from.args[1])

\* C10: checked_sub and checked_mul wrap modulo 2^BITS, fail with ZeroResult
\* iff the wrapped result is 0 and otherwise succeed with the wrapped value;
\* overflow alone is never an error; checked_mul fails when the product is a
\* multiple of 2^BITS; checked_sub fails iff a = b.
C10_SubMul ==
    ilast.op \in {"checked_sub", "checked_mul"} =>
        LET a == ilast.args[1]
            b == ilast.args[2]
            n == IF ilast.op = "checked_sub" THEN a - b ELSE a * b
        IN  /\ a # 0 /\ b # 0
            /\ IsZeroResult(ilast.res) <=> MultipleOfTwoW(n)
            /\ ~MultipleOfTwoW(n) =>
                  IsOk(ilast.res) /\ Represents(ilast.res.val, n)
            /\ IsOk(ilast.res) \/ IsZeroResult(ilast.res)
            /\ ilast.op = "checked_sub" => (IsZeroResult(ilast.res) <=> a = b)

\* C10 witness: two non-zero factors whose product is a non-zero multiple of
\* 2^BITS were multiplied and the call failed with ZeroResult.
C10_Witness ==
    /\ ilast.op = "checked_mul"
    /\ ilast.args[1] * ilast.args[2] # 0
    /\ MultipleOfTwoW(ilast.args[1] * ilast.args[2])
    /\ IsZeroResult(ilast.res)

(***************************************************************************)
(* Properties of nzSign (checked under SignSpec)                           *)
(***************************************************************************)
\* C7: x.and(y) = Pos iff both are Pos; x.or(y) = Neg iff both are Neg;
\* x.xor(y) = Pos iff x # y; x.not().not() = x.
C7_Connectives ==
    /\ slast.op = "and" =>
          (slast.res.val = "Pos"
             <=> (slast.args[1] = "Pos" /\ slast.args[2] = "Pos"))
    /\ slast.op = "or" =>
          (slast.res.val = "Neg"
             <=> (slast.args[1] = "Neg" /\ slast.args[2] = "Neg"))
    /\ slast.op = "xor" =>
          (slast.res.val = "Pos" <=> slast.args[1] # slast.args[2])
    /\ slast.op \in {"and", "or", "xor", "not"} => slast.res.val \in nzSign
    /\ (slast.op = "not" /\ slast.from.op = "not")
       => slast.res.val = slast.from.args[1]

\* C7 witness: not was applied to the result of a not of Neg.
C7_Witness ==
    /\ slast.op = "not"
    /\ slast.from.op = "not"
    /\ slast.from.args[1] = "Neg"
    /\ slast.res.val = "Neg"

\* C8: from_i8(to_i8(s)) is present and equals s; to_i8 is 1 for Pos and -1
\* for Neg; from_i8(v) is absent for every byte v other than 1 and -1.
C8_I8RoundTrip ==
    /\ (slast.op = "from_i8" /\ slast.from.op = "to_i8")
       => slast.res = Some(slast.from.args[1])
    /\ slast.op = "to_i8" =>
          slast.res.val = (IF slast.args[1] = "Pos" THEN 1 ELSE 0 - 1)
    /\ (slast.op = "from_i8" /\ slast.args[1] \notin {1, 0 - 1})
       => slast.res = None

\* C8 witness: Neg went through to_i8 and from_i8 and came back.
C8_Witness ==
    /\ slast.op = "from_i8"
    /\ slast.from.op = "to_i8"
    /\ slast.from.args[1] = "Neg"
    /\ slast.res = Some("Neg")

(***************************************************************************)
(* Properties of NzFloat (checked under FloatSpec)                         *)
(***************************************************************************)
\* a bit pattern that an NzFloat may hold: not +0.0, not -0.0, not NaN
Admissible(v) == v \in F64 /\ Mag(v) # 0 /\ Mag(v) <= InfMag
PosInf == Bits(FALSE, InfMag)
NegInf == Bits(TRUE, InfMag)
IsFinite(v) == Mag(v) < InfMag

\* the raw IEEE-754 result of the checked operation of a call
Raw(c) ==
    CASE c.op = "checked_add" -> f64_add(c.args[1], c.args[2])
      [] c.op = "checked_sub" -> f64_sub(c.args[1], c.args[2])
      [] c.op = "checked_mul" -> f64_mul(c.args[1], c.args[2])
      [] c.op = "checked_div" -> f64_div(c.args[1], c.args[2])

FloatOps == {"new", "try_from", "one", "neg_one", "checked_add",
             "checked_sub", "checked_mul", "checked_div", "abs", "signum"}
FloatChecked == {"checked_add", "checked_sub", "checked_mul", "checked_div"}

\* C9: after any sequence of NzFloat operations on values produced earlier
\* (infinities included), no NzFloat is +0.0, -0.0 or NaN; a checked
\* operation fails with NotANumber when its raw result is NaN, else with
\* ZeroResult when it is either zero, and only otherwise returns the result.
C9_NzFloatInvariant ==
    /\ \A v \in FHeld : Admissible(v)
    /\ (flast.op \in FloatOps /\ HasVal(flast.res)) => Admissible(flast.res.val)
    /\ flast.op \in FloatChecked =>
          LET a == flast.args[1]
              b == flast.args[2]
              r == Raw(flast)
          IN  /\ Mag(r) > InfMag => IsNotANumber(flast.res)
              /\ Mag(r) = 0 => IsZeroResult(flast.res)
              /\ (Mag(r) # 0 /\ Mag(r) <= InfMag) => flast.res = Ok(r)
              /\ (flast.op = "checked_add" /\ a = PosInf /\ b = NegInf)
                 => IsNotANumber(flast.res)
              /\ (flast.op = "checked_div" /\ a = PosInf /\ b = PosInf)
                 => IsNotANumber(flast.res)
              /\ (flast.op = "checked_add" /\ IsFinite(a) /\ b = f64_neg(a))
                 => IsZeroResult(flast.res)
              /\ (flast.op = "checked_div" /\ IsFinite(a) /\ ~IsFinite(b))
                 => IsZeroResult(flast.res)

\* C9 witness: a product of two held values underflowed to -0.0 and the call
\* failed with ZeroResult.
C9_Witness ==
    /\ flast.op = "checked_mul"
    /\ flast.args[1] \in FHeld
    /\ flast.args[2] \in FHeld
    /\ Raw(flast) = Bits(TRUE, 0)
    /\ IsZeroResult(flast.res)

====
